---------------------------- MODULE Spec2Model ----------------------------
(***************************************************************************)
(* Model of the web scraper service of src/main.py: the process-wide       *)
(* browser session (get_browser, startup_event, shutdown_event), the       *)
(* /scrape and /markdown request pipeline (scrape_page, scrape_as_markdown)*)
(* with one action per suspension point (await), the DOM content extractor *)
(* evaluated in the page (extractComprehensiveContent), the Markdown       *)
(* renderer (generate_markdown) and the result assembly.                   *)
(***************************************************************************)
EXTENDS Integers, Sequences, FiniteSets, TLC

(***************************************************************************)
(* Bounds of the model.                                                    *)
(***************************************************************************)
\* request slots that can be in flight at the same time
NReq == 2
\* requests accepted over a run
MaxRequests == 2
\* largest screenshot, in bytes, the browser returns
MaxShotBytes == 2
\* elements of the page a DOM evaluation walks
MaxElements == 3
\* elements of a page whose content is rendered as Markdown
MaxRendered == 2

(***************************************************************************)
(* Program constants.                                                      *)
(***************************************************************************)
MinTimeout == 5
MaxTimeout == 120
DefaultTimeout == 30
ErrorStatusFloor == 400
BandThreshold == 10
MinTextLength == 3
MinRenderedText == 20

VARIABLES
    browser_instance,   \* the global: 0 is None, n > 0 the n-th launched engine
    launches,           \* browser engines launched so far
    startup,            \* position of startup_event
    req,                \* per request slot: the locals of scrape_page
    pages,              \* pages[p]: the page handle p returned by new_page, the
                        \* slot that opened it and the slot that closed it
    arrivals,           \* requests accepted so far
    shutdown,           \* position of shutdown_event, "none" while the server runs
    dom,                \* extractor: the elements of the document, in DOM order
    extracted_data,     \* extractor: what page.evaluate returned
    assembled,          \* extractor: the result scrape_page builds from it
    extract_pc          \* extractor: "loaded", "evaluated" or "assembled"

vars == <<browser_instance, launches, startup, req, pages, arrivals, shutdown,
          dom, extracted_data, assembled, extract_pc>>

Reqs == 1..NReq

Abs(x) == IF x < 0 THEN -x ELSE x

(***************************************************************************)
(* URLs are sequences of characters; four character classes are enough    *)
(* for the validation: "a" a letter, "8" a digit, ":" and "/".             *)
(***************************************************************************)
EmptyUrl == <<>>
GoodUrl == <<"a", ":", "/", "/", "a">>          \* a://a
PortOnlyUrl == <<"a", ":", "/", "/", ":", "8">> \* a://:8
URLs == { EmptyUrl,
          GoodUrl,
          PortOnlyUrl,
          <<"a">>,                      \* no scheme, no network location
          <<"/", "/", "a">>,            \* network location without a scheme
          <<"a", ":", "a">>,            \* scheme without a network location
          <<"a", ":", "/", "/">>,       \* scheme, empty network location
          <<"a", ":", "/", "/", "a", ":", "8", "/", "a">> }

Timeouts == {MinTimeout - 1, MinTimeout, DefaultTimeout, MaxTimeout, MaxTimeout + 1}

\* index of the first occurrence of c in s at or after i, Len(s) + 1 if none
RECURSIVE Find(_, _, _)
Find(s, c, i) ==
    IF i > Len(s) THEN Len(s) + 1
    ELSE IF s[i] \in c THEN i ELSE Find(s, c, i + 1)

\* urllib.parse.urlparse, its scheme and netloc fields
urlparse(url) ==
    LET colon == Find(url, {":"}, 1)
        hasScheme == /\ colon <= Len(url)
                     /\ colon > 1
                     /\ url[1] = "a"
                     /\ \A i \in 1..(colon - 1) : url[i] \in {"a", "8"}
        scheme == IF hasScheme THEN SubSeq(url, 1, colon - 1) ELSE <<>>
        rest == IF hasScheme THEN SubSeq(url, colon + 1, Len(url)) ELSE url
        hasNetloc == Len(rest) >= 2 /\ rest[1] = "/" /\ rest[2] = "/"
        stop == Find(rest, {"/"}, 3)
        netloc == IF hasNetloc THEN SubSeq(rest, 3, stop - 1) ELSE <<>>
    IN  [scheme |-> scheme, netloc |-> netloc]

is_valid_url(url) ==
    LET result == urlparse(url)
    IN  result.scheme /= <<>> /\ result.netloc /= <<>>


(***************************************************************************)
(* The DOM content extractor (the script page.evaluate runs).  An element  *)
(* is a record: tag, text (the length of its trimmed innerText), href and  *)
(* src (sequences of characters, <<>> when absent; "#" is the fragment     *)
(* marker), alt, visible (isElementVisible) and its page position; and,    *)
(* for the elements that have them, multiline (its text holds a line       *)
(* break), children (the li of a list or the tr of a table that hold text) *)
(* and class_name (a sequence of characters, " " a white space).           *)
(***************************************************************************)
Position(top, left) == [top |-> top, left |-> left]

Element(tag, text, href, src, alt, visible, position) ==
    [tag |-> tag, text |-> text, href |-> href, src |-> src, alt |-> alt,
     visible |-> visible, position |-> position,
     multiline |-> FALSE, children |-> 0, class_name |-> <<>>]

\* String.prototype.includes
Includes(s, c) == \E i \in 1..Len(s) : s[i] = c

\* String.prototype.split / str.split on a one-character separator
RECURSIVE Split(_, _)
Split(s, c) ==
    LET i == Find(s, {c}, 1)
    IN  IF i > Len(s) THEN <<s>>
        ELSE <<SubSeq(s, 1, i - 1)>> \o Split(SubSeq(s, i + 1, Len(s)), c)

HeadingTags == {"h1", "h2", "h3", "h4", "h5", "h6"}
TextTags == {"div", "span", "section", "article"}
ListTags == {"ul", "ol"}
CodeTags == {"pre", "code"}
ButtonTags == {"button", "input"}

\* an item pushed on results; a key the branch does not set holds the empty
\* value of its kind
Item(type, el) ==
    [type |-> type, text |-> el.text, href |-> <<>>, anchor_text |-> <<>>,
     src |-> <<>>, alt |-> "", level |-> "", position |-> el.position,
     multiline |-> FALSE, items |-> 0, rows |-> 0, language |-> <<>>]

\* the branch of the classification chain an element takes: the item it
\* pushes on results, or <<>> when it pushes none
Classify(el) ==
    IF el.tag \in HeadingTags
    THEN IF el.text > 0
         THEN <<[Item("heading", el) EXCEPT !.level = el.tag]>> ELSE <<>>
    ELSE IF el.tag = "p"
    THEN IF el.text > 0 THEN <<Item("paragraph", el)>> ELSE <<>>
    ELSE IF el.tag \in TextTags
    THEN IF el.text > MinTextLength THEN <<Item("text", el)>> ELSE <<>>
    ELSE IF el.tag = "a"
    THEN IF el.text > 0 /\ el.href /= <<>>
         THEN LET isAnchorLink == Includes(el.href, "#")
                  anchorText == IF isAnchorLink THEN Split(el.href, "#")[2] ELSE <<>>
              IN  <<[Item(IF isAnchorLink THEN "anchor_link" ELSE "link", el)
                        EXCEPT !.href = el.href, !.anchor_text = anchorText]>>
         ELSE <<>>
    ELSE IF el.tag = "img"
    THEN IF el.src /= <<>>
         THEN <<[Item("image", el) EXCEPT !.text = 0, !.src = el.src, !.alt = el.alt]>>
         ELSE <<>>
    ELSE IF el.tag \in ListTags
    THEN IF el.children > 0
         THEN <<[Item(IF el.tag = "ul" THEN "unordered_list" ELSE "ordered_list", el)
                    EXCEPT !.text = 0, !.items = el.children]>>
         ELSE <<>>
    ELSE IF el.tag = "table"
    THEN IF el.children > 0
         THEN <<[Item("table", el) EXCEPT !.text = 0, !.rows = el.children]>>
         ELSE <<>>
    ELSE IF el.tag = "blockquote"
    THEN IF el.text > 0 THEN <<Item("blockquote", el)>> ELSE <<>>
    ELSE IF el.tag \in CodeTags
    THEN IF el.text > 0
         THEN <<[Item("code", el) EXCEPT !.multiline = el.multiline,
                                         !.language = el.class_name]>>
         ELSE <<>>
    ELSE IF el.tag \in ButtonTags
    THEN IF el.text > 0 THEN <<Item("button", el)>> ELSE <<>>
    ELSE <<>>

\* the loop over document.querySelectorAll('*'): visible elements, in DOM order
RECURSIVE Collect(_)
Collect(elements) ==
    IF elements = <<>> THEN <<>>
    ELSE (IF Head(elements).visible THEN Classify(Head(elements)) ELSE <<>>)
         \o Collect(Tail(elements))

\* PositionCompare without the row band: top to bottom only
PositionCompareByTop(a, b) ==
    a.position.top - b.position.top

\* the comparator handed to results.sort
PositionCompare(a, b) ==
    IF Abs(a.position.top - b.position.top) < BandThreshold
    THEN a.position.left - b.position.left
    ELSE a.position.top - b.position.top

(***************************************************************************)
(* Array.prototype.sort as the Chromium engine runs it on a short array:   *)
(* the leading run is counted (a strictly descending one is reversed) and  *)
(* the remaining elements are placed by binary insertion.                  *)
(***************************************************************************)
RECURSIVE RunEnd(_, _, _)
RunEnd(s, idx, descending) ==
    IF idx > Len(s) THEN idx - 1
    ELSE LET order == PositionCompare(s[idx], s[idx - 1])
         IN  IF (descending /\ order >= 0) \/ (~descending /\ order < 0)
             THEN idx - 1
             ELSE RunEnd(s, idx + 1, descending)

Reverse(s) == [i \in 1..Len(s) |-> s[Len(s) + 1 - i]]

RECURSIVE InsertionPoint(_, _, _, _)
InsertionPoint(s, pivot, left, right) ==
    IF left >= right THEN left
    ELSE LET mid == left + ((right - left) \div 2)
         IN  IF PositionCompare(pivot, s[mid]) < 0
             THEN InsertionPoint(s, pivot, left, mid)
             ELSE InsertionPoint(s, pivot, mid + 1, right)

RECURSIVE BinaryInsertionSort(_, _)
BinaryInsertionSort(s, start) ==
    IF start > Len(s) THEN s
    ELSE LET pivot == s[start]
             at == InsertionPoint(s, pivot, 1, start)
         IN  BinaryInsertionSort(
                 SubSeq(s, 1, at - 1) \o <<pivot>> \o SubSeq(s, at, start - 1)
                     \o SubSeq(s, start + 1, Len(s)),
                 start + 1)

Sort(results) ==
    IF Len(results) < 2 THEN results
    ELSE LET descending == PositionCompare(results[2], results[1]) < 0
             run == RunEnd(results, 3, descending)
             made == IF descending
                     THEN Reverse(SubSeq(results, 1, run)) \o SubSeq(results, run + 1, Len(results))
                     ELSE results
         IN  BinaryInsertionSort(made, run + 1)

extractComprehensiveContent(elements) == Sort(Collect(elements))

\* Count with the anchor links counted among the links
CountLinksOfBothKinds(content, type) ==
    Cardinality({i \in 1..Len(content) :
                    \/ content[i].type = type
                    \/ type = "link" /\ content[i].type = "anchor_link"})

\* content.filter(item => item.type === type).length
Count(content, type) == Cardinality({i \in 1..Len(content) : content[i].type = type})

\* the text of the first element of the document with the tag, 0 without one:
\* document.title, document.querySelector('meta[name=...]')?.content
RECURSIVE FirstText(_, _)
FirstText(elements, tag) ==
    IF elements = <<>> THEN 0
    ELSE IF Head(elements).tag = tag THEN Head(elements).text
    ELSE FirstText(Tail(elements), tag)

\* the fields of the page metadata the renderer reads
Metadata(elements) ==
    [title |-> FirstText(elements, "title"),
     description |-> FirstText(elements, "meta[name=description]"),
     author |-> FirstText(elements, "meta[name=author]")]

\* the object the evaluated script returns
Evaluated(elements) ==
    LET content == extractComprehensiveContent(elements)
    IN  [content |-> content,
         metadata |-> Metadata(elements),
         stats |-> [total_elements |-> Len(content),
                    headings |-> Count(content, "heading"),
                    paragraphs |-> Count(content, "paragraph"),
                    links |-> Count(content, "link"),
                    anchor_links |-> Count(content, "anchor_link"),
                    images |-> Count(content, "image"),
                    tables |-> Count(content, "table")]]

\* [item[field] for item in content if item.get('type') in types]
RECURSIVE Project(_, _, _)
Project(content, types, field) ==
    IF content = <<>> THEN <<>>
    ELSE (IF Head(content).type \in types THEN <<Head(content)[field]>> ELSE <<>>)
         \o Project(Tail(content), types, field)

LinkTypes == {"link", "anchor_link"}

\* the "separate lists for compatibility" of scrape_page
Assemble(data) ==
    [statistics |-> data.stats,
     visible_content |-> data.content,
     links |-> Project(data.content, LinkTypes, "href"),
     images |-> Project(data.content, {"image"}, "src"),
     anchor_links |-> Project(data.content, {"anchor_link"}, "href")]


(***************************************************************************)
(* generate_markdown.  The document is the list markdown_lines; a line is  *)
(* a record: md names the format string that made it, and text, target,    *)
(* alt and n hold what the format string was filled with (the length of a  *)
(* text, the characters of a link target or of a language, the alt string, *)
(* a heading level or the number of a list item or table row).             *)
(***************************************************************************)
Line(md) == [md |-> md, text |-> 0, target |-> <<>>, alt |-> "", n |-> 0]

Last(s) == s[Len(s)]

\* str.split(): the words between runs of white space
RECURSIVE Words(_)
Words(s) ==
    IF s = <<>> THEN <<>>
    ELSE IF Head(s) = " " THEN Words(Tail(s))
    ELSE LET stop == Find(s, {" "}, 1)
         IN  <<SubSeq(s, 1, stop - 1)>> \o Words(SubSeq(s, stop + 1, Len(s)))

\* int(level[1])
LevelNum == [h1 |-> 1, h2 |-> 2, h3 |-> 3, h4 |-> 4, h5 |-> 5, h6 |-> 6]

\* href.split('#')[-1] if '#' in href else ''
AnchorPart(href) == IF Includes(href, "#") THEN Last(Split(href, "#")) ELSE <<>>

\* the exception the branch of an item raises, "none" when it raises none:
\* item.get('language', '').split()[0] has no first word to index
RenderRaises(item) ==
    IF item.type = "code" /\ item.language /= <<>> /\ Words(item.language) = <<>>
    THEN "IndexError"
    ELSE "none"

\* the lines the branch of an item appends to markdown_lines
RenderItem(item) ==
    IF item.type = "heading"
    THEN <<[Line("heading") EXCEPT !.n = LevelNum[item.level], !.text = item.text]>>
    ELSE IF item.type = "paragraph"
    THEN <<[Line("plain") EXCEPT !.text = item.text]>>
    ELSE IF item.type = "text"
    THEN IF item.text > MinRenderedText
         THEN <<[Line("plain") EXCEPT !.text = item.text]>> ELSE <<>>
    ELSE IF item.type = "link"
    THEN <<[Line("link") EXCEPT !.text = item.text, !.target = item.href]>>
    ELSE IF item.type = "anchor_link"
    THEN <<[Line("anchor_link") EXCEPT !.text = item.text,
                                       !.target = AnchorPart(item.href)]>>
    ELSE IF item.type = "image"
    \* item.get('alt', 'Image'): the extractor sets the key alt on every image
    \* item, to "" when the element has no alt text, so the key is never missing
    THEN <<[Line("image") EXCEPT !.alt = item.alt, !.target = item.src]>>
    ELSE IF item.type = "unordered_list"
    THEN [i \in 1..item.items |-> [Line("bullet") EXCEPT !.n = i]] \o <<Line("blank")>>
    ELSE IF item.type = "ordered_list"
    THEN [i \in 1..item.items |-> [Line("numbered") EXCEPT !.n = i]] \o <<Line("blank")>>
    ELSE IF item.type = "table"
    THEN IF item.rows > 0
         THEN <<[Line("table_row") EXCEPT !.n = 1], Line("table_separator")>>
              \o [i \in 1..(item.rows - 1) |-> [Line("table_row") EXCEPT !.n = i + 1]]
              \o <<Line("blank")>>
         ELSE <<>>
    ELSE IF item.type = "blockquote"
    THEN <<[Line("blockquote") EXCEPT !.text = item.text]>>
    ELSE IF item.type = "code"
    THEN LET language == IF item.language /= <<>> THEN Words(item.language)[1] ELSE <<>>
         IN  IF item.multiline
             THEN <<[Line("fence_open") EXCEPT !.target = language],
                    [Line("code_text") EXCEPT !.text = item.text],
                    Line("fence_close")>>
             ELSE <<[Line("inline_code") EXCEPT !.text = item.text]>>
    ELSE IF item.type = "button"
    THEN <<[Line("button") EXCEPT !.text = item.text]>>
    ELSE <<>>

\* the first loop over content_list
RECURSIVE RenderItems(_)
RenderItems(content_list) ==
    IF content_list = <<>> THEN <<>>
    ELSE RenderItem(Head(content_list)) \o RenderItems(Tail(content_list))

\* the metadata lines and the rule under them
Frontmatter(metadata) ==
    (IF metadata.title > 0
     THEN <<[Line("title") EXCEPT !.text = metadata.title]>> ELSE <<>>)
    \o (IF metadata.description > 0
        THEN <<[Line("description") EXCEPT !.text = metadata.description]>> ELSE <<>>)
    \o (IF metadata.author > 0
        THEN <<[Line("author") EXCEPT !.text = metadata.author]>> ELSE <<>>)
    \o <<Line("rule")>>

\* the second loop over content_list: the entries of all_links
RECURSIVE AllLinks(_)
AllLinks(content_list) ==
    IF content_list = <<>> THEN <<>>
    ELSE LET item == Head(content_list)
         IN  (IF item.type = "link"
              THEN <<[Line("link_entry") EXCEPT !.text = item.text, !.target = item.href]>>
              ELSE <<>>)
             \o AllLinks(Tail(content_list))

\* the second loop over content_list: the entries of anchor_links
RECURSIVE AnchorLinks(_)
AnchorLinks(content_list) ==
    IF content_list = <<>> THEN <<>>
    ELSE LET item == Head(content_list)
         IN  (IF item.type = "anchor_link"
              THEN <<[Line("anchor_entry") EXCEPT !.text = item.text,
                                                  !.target = AnchorPart(item.href)]>>
              ELSE <<>>)
             \o AnchorLinks(Tail(content_list))

\* LinksSection made only when there are external links
LinksSectionLinksOnly(all_links, anchor_links) ==
    IF all_links /= <<>>
    THEN <<Line("section_rule"), Line("links_found"), Line("external_links")>>
         \o all_links \o <<Line("blank")>>
         \o (IF anchor_links /= <<>>
             THEN <<Line("anchor_links")>> \o anchor_links
             ELSE <<>>)
    ELSE <<>>

\* the links section at the end of the document
LinksSection(all_links, anchor_links) ==
    IF all_links /= <<>> \/ anchor_links /= <<>>
    THEN <<Line("section_rule"), Line("links_found")>>
         \o (IF all_links /= <<>>
             THEN <<Line("external_links")>> \o all_links \o <<Line("blank")>>
             ELSE <<>>)
         \o (IF anchor_links /= <<>>
             THEN <<Line("anchor_links")>> \o anchor_links
             ELSE <<>>)
    ELSE <<>>

\* what a call of generate_markdown does: the exception it raises ("none"
\* when it returns) and the lines of the document it returns
generate_markdown(content_list, metadata) ==
    IF \E i \in 1..Len(content_list) : RenderRaises(content_list[i]) /= "none"
    THEN [raised |-> "IndexError", lines |-> <<>>]
    ELSE [raised |-> "none",
          lines |-> Frontmatter(metadata)
                    \o RenderItems(content_list)
                    \o LinksSection(AllLinks(content_list), AnchorLinks(content_list))]


(***************************************************************************)
(* Exceptions.  An exception is a record: its class and, for the           *)
(* HTTPException the handlers raise, the status code it carries.           *)
(***************************************************************************)
NoException == [class |-> "none", status_code |-> 0]
HTTPException(status_code) == [class |-> "HTTPException", status_code |-> status_code]
Raised(class) == [class |-> class, status_code |-> 0]

\* what the awaited browser calls raise: the driver's Error, its TimeoutError
\* (a subclass of Error) and asyncio.TimeoutError
LibraryErrors == {"Error", "TimeoutError", "asyncio.TimeoutError"}

\* isinstance(e, base) over the classes above
IsInstance(e, base) ==
    /\ e.class /= "none"
    /\ \/ base = "Exception"
       \/ base = e.class
       \/ base = "Error" /\ e.class = "TimeoutError"

(***************************************************************************)
(* scrape_page, stage by stage.  Each operator is one try statement: what  *)
(* it raises for an outcome of the awaited call, NoException when control  *)
(* falls through to the next stage.                                        *)
(***************************************************************************)
\* lines 194-202: the status of the HTTPException validation raises, 0 if none
Validate(url, timeout) ==
    IF url = <<>> THEN 400
    ELSE IF ~is_valid_url(url) THEN 400
    ELSE IF timeout < MinTimeout \/ timeout > MaxTimeout THEN 400
    ELSE 0

\* lines 211-221: new_page, set_viewport_size, set_default_timeout
AcquirePageExcept(e) ==
    IF IsInstance(e, "Exception") THEN HTTPException(500) ELSE NoException

\* a response of page.goto: None, or a response with a status
NoResponse == [none |-> TRUE, status |-> 0]
Response(status) == [none |-> FALSE, status |-> status]
NavStatuses == {200, ErrorStatusFloor, 404}

\* lines 232-236: what the body of the navigation try raises for a response
NavigateCheck(response) ==
    IF response.none THEN HTTPException(400)
    ELSE IF response.status >= ErrorStatusFloor THEN HTTPException(response.status)
    ELSE NoException

\* lines 238-242: the except clauses of the navigation try
NavigateExcept(e) ==
    IF IsInstance(e, "asyncio.TimeoutError") THEN HTTPException(408)
    ELSE IF IsInstance(e, "Exception") THEN HTTPException(500)
    ELSE NoException

\* SettleExcept without the second clause: only the timeout is caught
SettleExceptTimeoutOnly(e) ==
    IF IsInstance(e, "asyncio.TimeoutError") THEN NoException ELSE e

\* lines 248-251: the except clauses of the settle try
SettleExcept(e) ==
    IF IsInstance(e, "asyncio.TimeoutError") THEN NoException
    ELSE IF IsInstance(e, "Exception") THEN NoException
    ELSE e

\* base64.b64encode(...).decode: the length of the encoding of n bytes
b64encode(n) == 4 * ((n + 2) \div 3)

\* CaptureExcept with the screenshot failure raised again
CaptureExceptRaises(e) ==
    e

\* lines 265-267: the except clause of the screenshot try
CaptureExcept(e) ==
    IF IsInstance(e, "Exception") THEN NoException ELSE e

\* ExtractExcept with the extraction failure logged and swallowed
ExtractExceptSwallows(e) ==
    NoException

\* lines 513-515: the except clause of the extraction try
ExtractExcept(e) ==
    IF IsInstance(e, "Exception") THEN HTTPException(500) ELSE NoException

\* ScrapeExcept without the last clause: only an HTTPException is handled
ScrapeExceptHTTPOnly(e) ==
    e

\* lines 550-554: the except clauses of the outer try
ScrapeExcept(e) ==
    IF IsInstance(e, "HTTPException") THEN e
    ELSE IF IsInstance(e, "Exception") THEN HTTPException(500)
    ELSE e

\* lines 556-558: the finally clause closes the page when it is set
ReleaseNeeded(page) == page /= 0

\* CloseExcept with the failure of page.close raised out of finally
CloseExceptRaises(e) ==
    e

\* lines 559-562: the except clause around page.close in finally
CloseExcept(e) ==
    IF IsInstance(e, "Exception") THEN NoException ELSE e

\* lines 588-591: the except clauses of scrape_as_markdown
MarkdownExcept(e) ==
    IF IsInstance(e, "HTTPException") THEN e
    ELSE IF IsInstance(e, "Exception") THEN HTTPException(500)
    ELSE e


(***************************************************************************)
(* The state of one request: the parameters and locals of scrape_page, the *)
(* outcome of each stage it has run, the stages it has entered so far, in  *)
(* the order it entered them, and where it is suspended.                   *)
(***************************************************************************)
NotCalled == [called |-> FALSE, raised |-> "none", response |-> NoResponse]

NoResult ==
    [success |-> FALSE, screenshot_base64 |-> 0, statistics |-> Evaluated(<<>>).stats,
     visible_content |-> <<>>, markdown_content |-> <<>>,
     links |-> <<>>, images |-> <<>>, anchor_links |-> <<>>]

IdleReq ==
    [pc |-> "idle", endpoint |-> "none", url |-> <<>>, timeout |-> 0,
     full_screenshot |-> FALSE, acquired |-> FALSE, browser |-> 0, page |-> 0,
     goto |-> NotCalled, settle |-> "none", capture |-> "none", extract |-> "none",
     render |-> "none", screenshot_base64 |-> 0, error |-> NoException, result |-> NoResult,
     close |-> "none", status |-> 0, stages |-> <<>>]

Endpoints == {"scrape", "markdown"}

\* the documents the requests of the pipeline load
AnchorElement ==
    Element("a", 4, <<"u", "#", "s">>, <<>>, "", TRUE, Position(0, 0))
BlankClassCode ==
    [Element("code", 4, <<>>, <<>>, "", TRUE, Position(0, 0)) EXCEPT !.class_name = <<" ">>]
PageDOMs == { <<>>, <<AnchorElement>>, <<BlankClassCode>> }

\* the outcomes of an awaited call: it returns, or raises one of the classes
\* its handlers tell apart
Outcomes == {"ok"} \cup LibraryErrors
OkOrError == {"ok", "Error"}

\* the request leaves scrape_page with its result or with the exception
\* error, through the /markdown wrapper when that called it, and is answered:
\* 200 with a result, the status of an HTTPException, 500 for any other
\* exception that reaches the server
Finish(rq) ==
    LET e == IF rq.endpoint = "markdown" THEN MarkdownExcept(rq.error) ELSE rq.error
    IN  [rq EXCEPT !.pc = "done",
                   !.status = IF e.class = "none" THEN 200
                              ELSE IF e.class = "HTTPException" THEN e.status_code
                              ELSE 500]

\* Fail without the finally clause: the page is closed on the success path only
FailWithoutRelease(rq, e) ==
    Finish([rq EXCEPT !.error = ScrapeExcept(e)])

\* an exception e leaves the stages: the outer except clauses, then finally
Fail(rq, e) ==
    LET failed == [rq EXCEPT !.error = ScrapeExcept(e)]
    IN  IF ReleaseNeeded(rq.page) THEN [failed EXCEPT !.pc = "close"] ELSE Finish(failed)

\* get_browser up to its first suspension: the test of the global
GetBrowser(rq) ==
    IF browser_instance = 0
    THEN [rq EXCEPT !.acquired = TRUE, !.pc = "playwright_start",
                    !.stages = Append(@, "Acquire Page")]
    ELSE [rq EXCEPT !.acquired = TRUE, !.pc = "new_page", !.browser = browser_instance,
                    !.stages = Append(@, "Acquire Page")]

Init ==
    /\ browser_instance = 0
    /\ launches = 0
    /\ startup = "playwright_start"
    /\ req = [r \in Reqs |-> IdleReq]
    /\ pages = <<>>
    /\ arrivals = 0
    /\ shutdown = "none"
    /\ dom = <<>>
    /\ extracted_data = Evaluated(<<>>)
    /\ assembled = NoResult
    /\ extract_pc = "loaded"

extractorVars == <<dom, extracted_data, assembled, extract_pc>>
pipelineVars == <<browser_instance, launches, startup, req, pages, arrivals, shutdown>>
sessionVars == <<browser_instance, launches>>

\* StartupExcept with the failure of the warm-up raised out of the handler
StartupExceptRaises(e) ==
    e

\* lines 44-45: the except clause of startup_event logs the failure
StartupExcept(e) ==
    IF IsInstance(e, "Exception") THEN NoException ELSE e

\* startup_event returns ("done": the server takes requests) or an exception
\* leaves it ("raised": the server does not come up)
AfterStartup(e) == IF e.class = "none" THEN "done" ELSE "raised"

\* health_check: the answer of /health
health_check == [status |-> "healthy", browser_ready |-> browser_instance /= 0]

\* startup_event: get_browser resumes from async_playwright().start()
StartupPlaywrightStart ==
    /\ startup = "playwright_start"
    /\ \E o \in OkOrError :
          startup' = IF o = "ok" THEN "launch" ELSE AfterStartup(StartupExcept(Raised(o)))
    /\ UNCHANGED <<browser_instance, launches, req, pages, arrivals, shutdown, extractorVars>>

\* startup_event: get_browser resumes from chromium.launch; a failure is logged
StartupLaunch ==
    /\ startup = "launch"
    /\ \E o \in OkOrError :
          IF o = "ok"
          THEN /\ browser_instance' = launches + 1
               /\ launches' = launches + 1
               /\ startup' = "done"
          ELSE /\ UNCHANGED sessionVars
               /\ startup' = AfterStartup(StartupExcept(Raised(o)))
    /\ UNCHANGED <<req, pages, arrivals, shutdown, extractorVars>>

\* a request enters scrape_page: validation, then get_browser to its first await
Arrive(r, urls, timeouts, endpoints, flags) ==
    /\ startup = "done"
    /\ shutdown = "none"
    /\ req[r].pc = "idle"
    /\ arrivals < MaxRequests
    /\ arrivals' = arrivals + 1
    /\ \E endpoint \in endpoints, url \in urls, timeout \in timeouts, flag \in flags :
          LET rq == [IdleReq EXCEPT !.endpoint = endpoint, !.url = url,
                                    !.timeout = timeout, !.stages = <<"Validate">>,
                                    !.full_screenshot = (endpoint = "scrape" /\ flag)]
              invalid == Validate(url, timeout)
          IN  req' = [req EXCEPT ![r] =
                        IF invalid /= 0
                        THEN Finish([rq EXCEPT !.error = HTTPException(invalid)])
                        ELSE GetBrowser(rq)]
    /\ UNCHANGED <<browser_instance, launches, startup, pages, shutdown, extractorVars>>

\* get_browser resumes from async_playwright().start()
PlaywrightStart(r) ==
    /\ req[r].pc = "playwright_start"
    /\ \E o \in OkOrError :
          req' = [req EXCEPT ![r] =
                    IF o = "ok" THEN [@ EXCEPT !.pc = "launch"] ELSE Fail(@, Raised(o))]
    /\ UNCHANGED <<browser_instance, launches, startup, pages, arrivals, shutdown, extractorVars>>

\* get_browser resumes from chromium.launch, sets the global and returns it
Launch(r) ==
    /\ req[r].pc = "launch"
    /\ \E o \in OkOrError :
          IF o = "ok"
          THEN /\ browser_instance' = launches + 1
               /\ launches' = launches + 1
               /\ req' = [req EXCEPT ![r] = [@ EXCEPT !.pc = "new_page",
                                                     !.browser = launches + 1]]
          ELSE /\ req' = [req EXCEPT ![r] = Fail(@, Raised(o))]
               /\ UNCHANGED sessionVars
    /\ UNCHANGED <<startup, pages, arrivals, shutdown, extractorVars>>

\* NewPageHandle with one page kept and handed to every request
SharedPageHandle(opened) ==
    IF opened = <<>> THEN 1 ELSE Len(opened)

\* page = await browser.new_page(): the handle the local page is bound to is
\* the one of the page just opened
NewPageHandle(opened) ==
    Len(opened) + 1

\* browser.new_page() returns a new page or raises
NewPage(r) ==
    /\ req[r].pc = "new_page"
    /\ \E o \in OkOrError :
          IF o = "ok"
          THEN /\ pages' = Append(pages, [owner |-> r, close_calls |-> 0,
                                          closed |-> FALSE, closed_by |-> 0])
               /\ req' = [req EXCEPT ![r] = [@ EXCEPT !.pc = "set_viewport_size",
                                                     !.page = NewPageHandle(pages)]]
          ELSE /\ req' = [req EXCEPT ![r] = Fail(@, AcquirePageExcept(Raised(o)))]
               /\ UNCHANGED pages
    /\ UNCHANGED <<browser_instance, launches, startup, arrivals, shutdown, extractorVars>>

\* page.set_viewport_size returns or raises; the default timeouts are set
SetViewportSize(r) ==
    /\ req[r].pc = "set_viewport_size"
    /\ \E o \in OkOrError :
          req' = [req EXCEPT ![r] =
                    IF o = "ok" THEN [@ EXCEPT !.pc = "goto"]
                    ELSE Fail(@, AcquirePageExcept(Raised(o)))]
    /\ UNCHANGED <<browser_instance, launches, startup, pages, arrivals, shutdown, extractorVars>>

\* AfterNavigate with a navigation failure treated as a warning
AfterNavigateProceeds(rq, e) ==
    [rq EXCEPT !.pc = "sleep"]

\* where the request goes after the navigation try: e is what the try let out
AfterNavigate(rq, e) ==
    IF e.class = "none" THEN [rq EXCEPT !.pc = "sleep"] ELSE Fail(rq, e)

\* page.goto returns a response (or None) or raises
Goto(r, env) ==
    /\ req[r].pc = "goto"
    /\ \E o \in env.goto, response \in env.responses :
          LET returned == o = "ok"
              raised == IF returned THEN NavigateCheck(response) ELSE Raised(o)
              e == IF raised.class = "none" THEN NoException ELSE NavigateExcept(raised)
              rq == [req[r] EXCEPT !.stages = Append(@, "Navigate"),
                                   !.goto = [called |-> TRUE,
                                             raised |-> IF returned THEN "none" ELSE o,
                                             response |-> IF returned THEN response
                                                          ELSE NoResponse]]
          IN  req' = [req EXCEPT ![r] = AfterNavigate(rq, e)]
    /\ UNCHANGED <<browser_instance, launches, startup, pages, arrivals, shutdown, extractorVars>>

\* asyncio.sleep(wait_time) returns
Sleep(r) ==
    /\ req[r].pc = "sleep"
    /\ req' = [req EXCEPT ![r] = [@ EXCEPT !.pc = "wait_for_load_state",
                                           !.stages = Append(@, "Settle")]]
    /\ UNCHANGED <<browser_instance, launches, startup, pages, arrivals, shutdown, extractorVars>>

\* AfterSettle with the extraction run right after the page settled
AfterSettleExtracts(rq, e) ==
    [rq EXCEPT !.pc = "evaluate"]

\* where the request goes after the settle try
AfterSettle(rq, e) ==
    IF e.class = "none" THEN [rq EXCEPT !.pc = "screenshot"] ELSE Fail(rq, e)

\* page.wait_for_load_state("networkidle") returns or raises
WaitForLoadState(r, env) ==
    /\ req[r].pc = "wait_for_load_state"
    /\ \E o \in env.wait_for_load_state :
          LET e == IF o = "ok" THEN NoException ELSE SettleExcept(Raised(o))
          IN  req' = [req EXCEPT ![r] = AfterSettle([@ EXCEPT !.settle = o], e)]
    /\ UNCHANGED <<browser_instance, launches, startup, pages, arrivals, shutdown, extractorVars>>

\* where the request goes after the screenshot try, with the string it holds
AfterCapture(rq, e, encoded) ==
    IF e.class = "none"
    THEN [rq EXCEPT !.pc = "evaluate", !.screenshot_base64 = encoded]
    ELSE Fail(rq, e)

\* page.screenshot returns the bytes of the picture or raises: the call is
\* made with full_page=True when full_screenshot is set and for the viewport
\* otherwise, so with either value of the flag
Screenshot(r, env) ==
    /\ req[r].pc = "screenshot"
    /\ \E o \in env.screenshot, n \in env.shots :
          LET e == IF o = "ok" THEN NoException ELSE CaptureExcept(Raised(o))
              encoded == IF o = "ok" THEN b64encode(n) ELSE 0
              rq == [req[r] EXCEPT !.capture = o, !.stages = Append(@, "Capture")]
          IN  req' = [req EXCEPT ![r] = AfterCapture(rq, e, encoded)]
    /\ UNCHANGED <<browser_instance, launches, startup, pages, arrivals, shutdown, extractorVars>>

\* lines 517-548: the result scrape_page builds from the extracted data
Result(data, screenshot_base64) ==
    LET lists == Assemble(data)
    IN  [success |-> TRUE, screenshot_base64 |-> screenshot_base64,
         statistics |-> lists.statistics, visible_content |-> lists.visible_content,
         markdown_content |-> generate_markdown(data.content, data.metadata).lines,
         links |-> lists.links, images |-> lists.images,
         anchor_links |-> lists.anchor_links]

\* page.evaluate returns the extracted data or raises; when it returns the
\* Markdown is generated, which can raise, the result is assembled and
\* control reaches finally
Evaluate(r, env) ==
    /\ req[r].pc = "evaluate"
    /\ \E o \in env.evaluate, elements \in env.doms :
          LET data == Evaluated(elements)
              markdown == generate_markdown(data.content, data.metadata)
              extracted == [req[r] EXCEPT !.extract = o, !.stages = Append(@, "Extract")]
              assembling == [extracted EXCEPT !.stages = Append(@, "Assemble")]
          IN  req' = [req EXCEPT ![r] =
                        IF o /= "ok"
                        THEN Fail(extracted, ExtractExcept(Raised(o)))
                        ELSE IF markdown.raised /= "none"
                        THEN Fail([assembling EXCEPT !.render = markdown.raised],
                                  Raised(markdown.raised))
                        ELSE [assembling EXCEPT !.render = "ok", !.pc = "close",
                                                !.result = Result(data,
                                                               req[r].screenshot_base64)]]
    /\ UNCHANGED <<browser_instance, launches, startup, pages, arrivals, shutdown, extractorVars>>

\* finally: page.close() returns or raises; an exception that leaves finally
\* takes the place of the result or of the exception on its way out; the
\* request is answered
Close(r) ==
    /\ req[r].pc = "close"
    /\ \E o \in OkOrError :
          LET e == IF o = "ok" THEN NoException ELSE CloseExcept(Raised(o))
              rq == [req[r] EXCEPT !.close = o, !.stages = Append(@, "Release")]
          IN  /\ pages' = [pages EXCEPT ![req[r].page] =
                             [@ EXCEPT !.close_calls = @ + 1, !.closed = (o = "ok"),
                                       !.closed_by = r]]
              /\ req' = [req EXCEPT ![r] =
                            Finish(IF e.class = "none" THEN rq
                                   ELSE [rq EXCEPT !.error = e, !.result = NoResult])]
    /\ UNCHANGED <<browser_instance, launches, startup, arrivals, shutdown, extractorVars>>

\* the response is sent; the slot takes the next request
Return(r) ==
    /\ req[r].pc = "done"
    /\ req' = [req EXCEPT ![r] = IdleReq]
    /\ UNCHANGED <<browser_instance, launches, startup, pages, arrivals, shutdown, extractorVars>>

\* shutdown_event has no try statement: what browser_instance.close() raises
\* leaves the handler
ShutdownExcept(e) ==
    e

\* the server stops with no request in flight: shutdown_event runs to the
\* await of browser_instance.close(), or returns when the global is not set
ShutdownEvent ==
    /\ startup = "done"
    /\ shutdown = "none"
    /\ \A r \in Reqs : req[r].pc = "idle"
    /\ shutdown' = IF browser_instance /= 0 THEN "close" ELSE "done"
    /\ UNCHANGED <<browser_instance, launches, startup, req, pages, arrivals, extractorVars>>

\* browser_instance.close() returns or raises
ShutdownClose ==
    /\ shutdown = "close"
    /\ \E o \in OkOrError :
          LET e == IF o = "ok" THEN NoException ELSE ShutdownExcept(Raised(o))
          IN  shutdown' = IF e.class = "none" THEN "done" ELSE "raised"
    /\ UNCHANGED <<browser_instance, launches, startup, req, pages, arrivals, extractorVars>>

Step(r, env) ==
    \/ PlaywrightStart(r)
    \/ Launch(r)
    \/ NewPage(r)
    \/ SetViewportSize(r)
    \/ Goto(r, env)
    \/ Sleep(r)
    \/ WaitForLoadState(r, env)
    \/ Screenshot(r, env)
    \/ Evaluate(r, env)
    \/ Close(r)
    \/ Return(r)

\* what the browser can answer a request: the outcomes of the awaited calls
\* of the stages, the responses of a navigation, the sizes of a screenshot,
\* the documents loaded
Browser ==
    [goto |-> Outcomes,
     responses |-> {NoResponse} \cup {Response(s) : s \in NavStatuses},
     wait_for_load_state |-> Outcomes,
     screenshot |-> OkOrError,
     shots |-> 1..MaxShotBytes,
     evaluate |-> OkOrError,
     doms |-> PageDOMs]

\* the answers kept when requests run together: one failing stage after the
\* page is open, one document, one screenshot
PlainBrowser ==
    [goto |-> OkOrError,
     responses |-> {Response(200)},
     wait_for_load_state |-> {"ok"},
     screenshot |-> {"ok"},
     shots |-> {1},
     evaluate |-> {"ok"},
     doms |-> {<<>>}]

\* one request at a time, over every input of /scrape and /markdown
Next ==
    \/ StartupPlaywrightStart
    \/ StartupLaunch
    \/ Arrive(1, URLs, Timeouts, Endpoints, BOOLEAN)
    \/ Step(1, Browser)
    \/ ShutdownEvent
    \/ ShutdownClose

Spec == Init /\ [][Next]_vars

\* requests in flight together, each a well-formed /scrape request
NextConcurrent ==
    \/ StartupPlaywrightStart
    \/ StartupLaunch
    \/ \E r \in Reqs : Arrive(r, {GoodUrl}, {DefaultTimeout}, {"scrape"}, {TRUE})
    \/ \E r \in Reqs : Step(r, PlainBrowser)
    \/ ShutdownEvent
    \/ ShutdownClose

SpecConcurrent == Init /\ [][NextConcurrent]_vars


(***************************************************************************)
(* The extractor and the assembly on their own: a document is loaded, the  *)
(* script is evaluated on it, scrape_page assembles the result.            *)
(***************************************************************************)
Tops == {0, 8, 16}
Lefts == {0, 5}

ElementCatalog ==
    { Element("p", 5, <<>>, <<>>, "", TRUE, Position(top, left)) :
          top \in Tops, left \in Lefts }
    \cup
    { Element("a", 4, <<"u">>, <<>>, "", TRUE, Position(0, 0)),
      AnchorElement,
      Element("a", 4, <<"u", "#", "s">>, <<>>, "", TRUE, Position(8, 5)),
      Element("a", 4, <<"u">>, <<>>, "", FALSE, Position(0, 5)),
      Element("a", 0, <<"u">>, <<>>, "", TRUE, Position(16, 5)),
      Element("img", 0, <<>>, <<"i">>, "", TRUE, Position(16, 0)) }

DOMs == UNION { [1..n -> ElementCatalog] : n \in 0..MaxElements }

InitExtract ==
    /\ browser_instance = 0
    /\ launches = 0
    /\ startup = "playwright_start"
    /\ req = [r \in Reqs |-> IdleReq]
    /\ pages = <<>>
    /\ arrivals = 0
    /\ shutdown = "none"
    /\ dom \in DOMs
    /\ extracted_data = Evaluated(<<>>)
    /\ assembled = NoResult
    /\ extract_pc = "loaded"

\* page.evaluate runs the script on the document
EvaluateScript ==
    /\ extract_pc = "loaded"
    /\ extracted_data' = Evaluated(dom)
    /\ extract_pc' = "evaluated"
    /\ UNCHANGED <<dom, assembled, pipelineVars>>

\* scrape_page builds the result from the extracted data, unless the
\* generation of the Markdown raises
AssembleResult ==
    /\ extract_pc = "evaluated"
    /\ IF generate_markdown(extracted_data.content, extracted_data.metadata).raised = "none"
       THEN /\ assembled' = Result(extracted_data, 0)
            /\ extract_pc' = "assembled"
       ELSE /\ assembled' = assembled
            /\ extract_pc' = "raised"
    /\ UNCHANGED <<dom, extracted_data, pipelineVars>>

NextExtract ==
    \/ EvaluateScript
    \/ AssembleResult

SpecExtract == InitExtract /\ [][NextExtract]_vars

(***************************************************************************)
(* The same on the documents that exercise the Markdown renderer: one      *)
(* element for each branch of generate_markdown and each side of its       *)
(* tests.                                                                  *)
(***************************************************************************)
Origin == Position(0, 0)
Below == Position(16, 0)

RenderCatalog ==
    { Element("title", 5, <<>>, <<>>, "", FALSE, Origin),
      Element("meta[name=description]", 5, <<>>, <<>>, "", FALSE, Origin),
      Element("meta[name=author]", 5, <<>>, <<>>, "", FALSE, Origin),
      Element("h2", 5, <<>>, <<>>, "", TRUE, Origin),
      Element("p", 5, <<>>, <<>>, "", TRUE, Origin),
      Element("div", MinRenderedText - 1, <<>>, <<>>, "", TRUE, Origin),
      Element("div", MinRenderedText, <<>>, <<>>, "", TRUE, Origin),
      Element("div", MinRenderedText + 1, <<>>, <<>>, "", TRUE, Origin),
      Element("a", 4, <<"u">>, <<>>, "", TRUE, Origin),
      Element("a", 4, <<"v">>, <<>>, "", TRUE, Below),
      AnchorElement,
      Element("a", 4, <<"u", "#", "s", "#", "t">>, <<>>, "", TRUE, Below),
      Element("img", 0, <<>>, <<"i">>, "", TRUE, Origin),
      Element("img", 0, <<>>, <<"i">>, "x", TRUE, Below),
      [Element("ul", 0, <<>>, <<>>, "", TRUE, Origin) EXCEPT !.children = 2],
      [Element("ol", 0, <<>>, <<>>, "", TRUE, Origin) EXCEPT !.children = 2],
      [Element("table", 0, <<>>, <<>>, "", TRUE, Origin) EXCEPT !.children = 2],
      Element("blockquote", 5, <<>>, <<>>, "", TRUE, Origin),
      [Element("pre", 5, <<>>, <<>>, "", TRUE, Origin)
          EXCEPT !.multiline = TRUE, !.class_name = <<"l", " ", "m">>],
      Element("code", 4, <<>>, <<>>, "", TRUE, Origin),
      BlankClassCode,
      Element("button", 4, <<>>, <<>>, "", TRUE, Origin) }

RenderDOMs == UNION { [1..n -> RenderCatalog] : n \in 0..MaxRendered }

InitRender ==
    /\ browser_instance = 0
    /\ launches = 0
    /\ startup = "playwright_start"
    /\ req = [r \in Reqs |-> IdleReq]
    /\ pages = <<>>
    /\ arrivals = 0
    /\ shutdown = "none"
    /\ dom \in RenderDOMs
    /\ extracted_data = Evaluated(<<>>)
    /\ assembled = NoResult
    /\ extract_pc = "loaded"

SpecRender == InitRender /\ [][NextExtract]_vars


(***************************************************************************)
(* Properties.                                                             *)
(***************************************************************************)
Done(rq) == rq.pc = "done"

\* the navigation stage of the request failed
NavigateFailed(rq) ==
    /\ rq.goto.called
    /\ \/ rq.goto.raised /= "none"
       \/ rq.goto.response.none
       \/ rq.goto.response.status >= ErrorStatusFloor

\* a stage of the request was run and raised
StageFailed(outcome) == outcome \notin {"none", "ok"}

\* the extraction and the rendering of the request both returned
Rendered(rq) == rq.extract = "ok" /\ rq.render = "ok"

\* C1: if browser.new_page returned a page to a request, page.close is invoked
\* on it exactly once before the request returns, whichever stage failed,
\* the viewport and timeout configuration included.
C1_PageClosedExactlyOnce ==
    /\ \A p \in 1..Len(pages) : pages[p].close_calls <= 1
    /\ \A r \in Reqs :
          /\ req[r].pc \notin {"idle", "done"} /\ req[r].page /= 0
                => pages[req[r].page].close_calls = 0
          /\ Done(req[r]) /\ req[r].page /= 0
                => pages[req[r].page].close_calls = 1
    /\ \A p \in 1..Len(pages) :
          (\A r \in Reqs : req[r].page /= p) => pages[p].close_calls = 1

\* C1 witness: a request whose page configuration failed after new_page
\* returned has come back with its page closed once.
C1_Witness ==
    \E r \in Reqs :
        /\ Done(req[r])
        /\ req[r].page /= 0
        /\ ~req[r].goto.called
        /\ req[r].status = 500
        /\ pages[req[r].page].close_calls = 1

\* C2: under any interleaving of concurrent get_browser calls the browser
\* engine is launched at most once and every caller receives the same handle.
C2_LaunchedAtMostOnce ==
    /\ launches <= 1
    /\ \A r1, r2 \in Reqs :
          req[r1].browser /= 0 /\ req[r2].browser /= 0
              => req[r1].browser = req[r2].browser

\* C3: a navigation response with status s >= 400 ends the request with
\* status s, and a navigation without a response ends it with status 400.
C3_NavigationStatusMirrored ==
    \A r \in Reqs :
        Done(req[r]) /\ req[r].goto.called /\ req[r].goto.raised = "none"
            => /\ req[r].goto.response.none => req[r].status = 400
               /\ ~req[r].goto.response.none
                    /\ req[r].goto.response.status >= ErrorStatusFloor
                    => req[r].status = req[r].goto.response.status

\* the host of a url: its network location without the port
hostname(url) ==
    LET netloc == urlparse(url).netloc
    IN  SubSeq(netloc, 1, Find(netloc, {":"}, 1) - 1)

\* the request's input fails the validation the claim describes
LacksSchemeOrHost(url) == urlparse(url).scheme = <<>> \/ hostname(url) = <<>>
TimeoutOutOfRange(timeout) == timeout < MinTimeout \/ timeout > MaxTimeout

\* C4: a request whose url is empty or lacks a scheme or host, or whose
\* timeout is outside 5..120, ends with status 400 without get_browser being
\* called and without a page; every other request passes validation.
C4_ValidationRejects ==
    \A r \in Reqs :
        req[r].pc /= "idle" =>
            IF \/ req[r].url = <<>>
               \/ LacksSchemeOrHost(req[r].url)
               \/ TimeoutOutOfRange(req[r].timeout)
            THEN /\ Done(req[r])
                 /\ req[r].status = 400
                 /\ ~req[r].acquired
                 /\ req[r].browser = 0
                 /\ req[r].page = 0
            ELSE req[r].acquired

\* C5: when the navigation fails, the request never settles, captures or
\* extracts: all that follows is the release of the page.
C5_NavigateFailureSkipsStages ==
    \A r \in Reqs :
        NavigateFailed(req[r])
            => /\ req[r].pc \in {"close", "done"}
               /\ req[r].settle = "none"
               /\ req[r].capture = "none"
               /\ req[r].extract = "none"
               /\ ~req[r].result.success
               /\ req[r].error.class = "HTTPException"

\* C5 witness: a request whose navigation was answered 404 has come back.
C5_Witness ==
    \E r \in Reqs :
        /\ Done(req[r])
        /\ req[r].goto.called
        /\ req[r].goto.response = Response(404)
        /\ req[r].close /= "none"

\* C6: when the extraction raises, the request ends with status 500 and no
\* result, even with a screenshot captured, and its page is released.
C6_ExtractFailureFatal ==
    \A r \in Reqs :
        StageFailed(req[r].extract)
            => /\ req[r].pc \in {"close", "done"}
               /\ req[r].error = HTTPException(500)
               /\ ~req[r].result.success
               /\ Done(req[r]) => /\ req[r].status = 500
                                  /\ pages[req[r].page].close_calls = 1

\* C6 witness: a request whose screenshot was captured and whose extraction
\* raised has come back.
C6_Witness ==
    \E r \in Reqs :
        /\ Done(req[r])
        /\ req[r].capture = "ok"
        /\ req[r].screenshot_base64 > 0
        /\ StageFailed(req[r].extract)

\* C7: after a successful navigation a failure to settle never ends the
\* request: capture and extraction are still attempted and the outcome is
\* the one the other stages decide, as when the page settled.
C7_SettleFailureNonFatal ==
    \A r \in Reqs :
        req[r].settle /= "none"
            => /\ req[r].pc \in {"screenshot", "evaluate", "close", "done"}
               /\ req[r].pc \in {"evaluate", "close", "done"} => req[r].capture /= "none"
               /\ req[r].pc \in {"close", "done"}
                    => /\ req[r].extract /= "none"
                       /\ req[r].result.success = Rendered(req[r])
                       /\ req[r].error = IF Rendered(req[r]) THEN NoException
                                         ELSE HTTPException(500)
               /\ Done(req[r]) => req[r].status = IF Rendered(req[r]) THEN 200 ELSE 500

\* C7 witness: a request whose settle wait raised (the wait's own timeout
\* or another error) has come back with a screenshot and a result.
C7_Witness ==
    \E r \in Reqs :
        /\ Done(req[r])
        /\ req[r].settle \in {"TimeoutError", "Error"}
        /\ req[r].capture = "ok"
        /\ req[r].result.success

\* C8: a failure of the screenshot never ends the request: the extraction is
\* still attempted and a successful result then holds the empty string, while
\* a successful capture gives a successful result a non-empty screenshot.
C8_CaptureFailureNonFatal ==
    \A r \in Reqs :
        /\ StageFailed(req[r].capture)
              => /\ req[r].pc \in {"evaluate", "close", "done"}
                 /\ req[r].pc \in {"close", "done"} => req[r].extract /= "none"
                 /\ req[r].result.success => req[r].result.screenshot_base64 = 0
                 /\ Done(req[r]) /\ Rendered(req[r]) => req[r].status = 200
        /\ req[r].capture = "ok" /\ req[r].result.success
              => req[r].result.screenshot_base64 > 0

\* C8 witness: a request whose screenshot failed has come back with a
\* successful result.
C8_Witness ==
    \E r \in Reqs :
        /\ Done(req[r])
        /\ StageFailed(req[r].capture)
        /\ req[r].result.success
        /\ req[r].status = 200

\* the set of the entries of a list
Range(s) == {s[i] : i \in 1..Len(s)}

\* C9: in every assembled result links and anchor_links are disjoint: links
\* holds exactly the hrefs of the link items, none with a "#", anchor_links
\* exactly the hrefs of the anchor_link items, all with a "#".
C9_LinksDisjoint ==
    extract_pc = "assembled"
        => /\ Range(assembled.links) \cap Range(assembled.anchor_links) = {}
           /\ assembled.links = Project(assembled.visible_content, {"link"}, "href")
           /\ assembled.anchor_links
                 = Project(assembled.visible_content, {"anchor_link"}, "href")
           /\ \A h \in Range(assembled.links) : ~Includes(h, "#")
           /\ \A h \in Range(assembled.anchor_links) : Includes(h, "#")

\* two items of a list are in the same row band
SameBand(a, b) == Abs(a.position.top - b.position.top) < BandThreshold

\* C10: in the sorted list, for every pair of items a, b whose tops differ by
\* less than 10, a precedes b if and only if a.left < b.left.
C10_BandOrder ==
    extract_pc /= "loaded"
        => LET content == extracted_data.content
           IN  \A i, j \in 1..Len(content) :
                  i /= j /\ SameBand(content[i], content[j])
                      => (i < j <=> content[i].position.left < content[j].position.left)

\* the banding comparator orders the items of the list consistently
Consistent(content) ==
    \A i, j, k \in 1..Len(content) :
        PositionCompare(content[i], content[j]) <= 0
            /\ PositionCompare(content[j], content[k]) <= 0
            => PositionCompare(content[i], content[k]) <= 0

\* C10 as amended: when the banding comparator orders the items consistently,
\* then for every pair a, b whose tops differ by less than 10, a.left < b.left
\* implies that a precedes b (so a precedes b only if a.left <= b.left).
C10_BandOrderWhenConsistent ==
    extract_pc /= "loaded" /\ Consistent(Collect(dom))
        => LET content == extracted_data.content
           IN  \A i, j \in 1..Len(content) :
                  SameBand(content[i], content[j])
                      /\ content[i].position.left < content[j].position.left
                      => i < j

\* C10 witness: two items of one band, in the document right before left,
\* have been sorted left before right among three consistently ordered items.
C10_Witness ==
    /\ extract_pc /= "loaded"
    /\ Len(extracted_data.content) = 3
    /\ Consistent(Collect(dom))
    /\ extracted_data.content /= Collect(dom)
    /\ \E i, j \in 1..3 :
          /\ i < j
          /\ SameBand(extracted_data.content[i], extracted_data.content[j])
          /\ extracted_data.content[i].position.left
                < extracted_data.content[j].position.left

\* C11: a /markdown request runs with the screenshot disabled: page.screenshot
\* is never invoked for it.
C11_MarkdownNeverCaptures ==
    \A r \in Reqs :
        req[r].endpoint = "markdown" => req[r].capture = "none"

\* the lines of a document made by one format string, in order
LinesOf(lines, md) == SelectSeq(lines, LAMBDA l : l.md = md)

\* the items of a content list of some types, in order
ItemsOf(content, types) == SelectSeq(content, LAMBDA item : item.type \in types)

\* C12: the renderer suppresses a generic text item if and only if its text
\* is shorter than 20 characters: the plain lines of the document are, in
\* order, the paragraphs and the text items of length 20 or more.
C12_ShortTextSuppressed ==
    extract_pc = "assembled"
        => LET kept == SelectSeq(assembled.visible_content,
                           LAMBDA item : \/ item.type = "paragraph"
                                         \/ item.type = "text" /\ item.text >= MinRenderedText)
           IN  LinesOf(assembled.markdown_content, "plain")
                  = [i \in 1..Len(kept) |-> [Line("plain") EXCEPT !.text = kept[i].text]]

\* C13: for every image item the extractor produces the renderer emits
\* ![alt](src), alt being the item's alt text when it is non-empty and
\* "Image" when it is empty.
C13_ImageAltDefault ==
    extract_pc = "assembled"
        => LET images == ItemsOf(assembled.visible_content, {"image"})
           IN  LinesOf(assembled.markdown_content, "image")
                  = [i \in 1..Len(images) |->
                        [Line("image") EXCEPT
                            !.alt = IF images[i].alt /= "" THEN images[i].alt ELSE "Image",
                            !.target = images[i].src]]

\* the entries listed under a heading line of the links section: the lines
\* that follow the heading, up to the first that is not an entry
EntriesUnder(lines, md) ==
    LET at == {i \in 1..Len(lines) : lines[i].md = md}
    IN  IF at = {} THEN <<>>
        ELSE LET h == CHOOSE i \in at : \A j \in at : i <= j
                 rest == {j \in (h + 1)..Len(lines) :
                             lines[j].md \notin {"link_entry", "anchor_entry"}}
                 stop == IF rest = {} THEN Len(lines) + 1
                         ELSE CHOOSE j \in rest : \A k \in rest : j <= k
             IN  SubSeq(lines, h + 1, stop - 1)

\* C14: the document has a "Links Found" section if and only if the content
\* list has a link or an anchor_link item; "External Links" lists every link
\* item and no anchor_link item, "Anchor Links" every anchor_link item and no
\* link item, each in the order of the content list, and a subsection without
\* entries is omitted.
C14_LinksSection ==
    extract_pc = "assembled"
        => LET lines == assembled.markdown_content
               links == ItemsOf(assembled.visible_content, {"link"})
               anchors == ItemsOf(assembled.visible_content, {"anchor_link"})
               external == EntriesUnder(lines, "external_links")
               internal == EntriesUnder(lines, "anchor_links")
           IN  /\ Len(LinesOf(lines, "links_found"))
                     = IF links /= <<>> \/ anchors /= <<>> THEN 1 ELSE 0
               /\ Len(LinesOf(lines, "external_links")) = IF links /= <<>> THEN 1 ELSE 0
               /\ Len(LinesOf(lines, "anchor_links")) = IF anchors /= <<>> THEN 1 ELSE 0
               /\ external = [i \in 1..Len(links) |->
                                [Line("link_entry") EXCEPT !.text = links[i].text,
                                                           !.target = links[i].href]]
               /\ Len(internal) = Len(anchors)
               /\ \A i \in 1..Len(anchors) :
                     /\ internal[i].md = "anchor_entry"
                     /\ internal[i].text = anchors[i].text
               /\ LinesOf(lines, "link_entry") = external
               /\ LinesOf(lines, "anchor_entry") = internal

\* C14 witness: a document rendered from a link in the lower row placed before
\* an anchor link in the upper row lists the anchor link under "Anchor Links"
\* and the link under "External Links".
C14_Witness ==
    /\ extract_pc = "assembled"
    /\ Len(dom) = 2
    /\ dom[1].href = <<"v">>
    /\ dom[2] = AnchorElement
    /\ Len(EntriesUnder(assembled.markdown_content, "external_links")) = 1
    /\ Len(EntriesUnder(assembled.markdown_content, "anchor_links")) = 1

\* C14 witness of the omitted subsection: a page with anchor links only has
\* the section without "External Links".
C14_WitnessAnchorsOnly ==
    /\ extract_pc = "assembled"
    /\ LinesOf(assembled.markdown_content, "links_found") /= <<>>
    /\ LinesOf(assembled.markdown_content, "external_links") = <<>>

\* the number of items of a type in a content list
NumberOf(content, type) == Len(ItemsOf(content, {type}))

\* the counts the statistics of a content list must hold
CountsOf(content) ==
    [total_elements |-> Len(content),
     headings |-> NumberOf(content, "heading"),
     paragraphs |-> NumberOf(content, "paragraph"),
     links |-> NumberOf(content, "link"),
     anchor_links |-> NumberOf(content, "anchor_link"),
     images |-> NumberOf(content, "image"),
     tables |-> NumberOf(content, "table")]

\* C15: in every extraction output total_elements is the length of content
\* and headings, paragraphs, links, anchor_links, images and tables are the
\* numbers of content items of the type; the statistics of the assembled
\* result satisfy the same with visible_content.
C15_StatsAreCounts ==
    /\ extract_pc /= "loaded" => extracted_data.stats = CountsOf(extracted_data.content)
    /\ extract_pc = "assembled" => assembled.statistics = CountsOf(assembled.visible_content)

\* C15 witness: a result assembled from a page with a table and an anchor
\* link counts one of each and two elements.
C15_Witness ==
    /\ extract_pc = "assembled"
    /\ assembled.statistics.total_elements = 2
    /\ assembled.statistics.tables = 1
    /\ assembled.statistics.anchor_links = 1
    /\ assembled.statistics.links = 0

\* the exception classes that report a navigation that ran out of time
NavigationTimeouts == {"TimeoutError", "asyncio.TimeoutError"}

\* C16: a navigation that exceeds the timeout ends the request with status
\* 408, not 500, and the page is released.
C16_NavigationTimeoutIs408 ==
    \A r \in Reqs :
        Done(req[r]) /\ req[r].goto.raised \in NavigationTimeouts
            => /\ req[r].status = 408
               /\ pages[req[r].page].close_calls = 1

\* C17: a failure of page.close during the release never changes the outcome
\* of the request: the result or the error it is answered with is the one it
\* held when the release began, whether page.close returned or raised.
C17_CloseFailureKeepsOutcome ==
    [][\A r \in Reqs :
          req[r].pc = "close" /\ req'[r].pc = "done"
              => /\ req'[r].result = req[r].result
                 /\ req'[r].error = req[r].error
                 /\ req'[r].status = IF req[r].error.class = "none" THEN 200
                                     ELSE req[r].error.status_code]_vars

\* C17 witness: a request whose page.close raised has been answered 200 with
\* its result.
C17_Witness ==
    \E r \in Reqs :
        /\ Done(req[r])
        /\ req[r].close = "Error"
        /\ req[r].result.success
        /\ req[r].status = 200

\* C17 witness on the error path: a request whose navigation raised and whose
\* page.close then raised has been answered with the navigation's error.
C17_WitnessError ==
    \E r \in Reqs :
        /\ Done(req[r])
        /\ req[r].close = "Error"
        /\ req[r].goto.raised = "Error"
        /\ req[r].error = HTTPException(500)
        /\ req[r].status = 500

\* C18: a failure to close the browser at shutdown is logged and never leaves
\* the shutdown handler.
C18_ShutdownCloseNotPropagated ==
    shutdown /= "raised"

\* C19: every invocation of scrape_page ends with a successful result or with
\* an HTTP error that carries a status code; no other kind of error leaves it,
\* whichever stage fails: the acquisition of the session, the creation of the
\* page, the navigation, the extraction or the rendering of the Markdown.
C19_OnlyHttpErrorsEscape ==
    \A r \in Reqs :
        Done(req[r])
            => \/ /\ req[r].error = NoException
                  /\ req[r].result.success
                  /\ req[r].status = 200
               \/ /\ req[r].error.class = "HTTPException"
                  /\ req[r].error.status_code >= ErrorStatusFloor
                  /\ req[r].status = req[r].error.status_code
                  /\ ~req[r].result.success

\* C19 witness: a request whose extraction returned and whose Markdown
\* rendering raised has ended with an HTTP error of status 500.
C19_Witness ==
    \E r \in Reqs :
        /\ Done(req[r])
        /\ req[r].endpoint = "scrape"
        /\ req[r].extract = "ok"
        /\ req[r].render = "IndexError"
        /\ req[r].error = HTTPException(500)

\* C19 witness of the session acquisition: a request for which the launch of
\* the browser raised has ended with an HTTP error of status 500.
C19_WitnessLaunch ==
    \E r \in Reqs :
        /\ Done(req[r])
        /\ req[r].acquired
        /\ req[r].browser = 0
        /\ req[r].error = HTTPException(500)

\* the place of a stage in an order of the stages
Place(order, stage) == CHOOSE i \in 1..Len(order) : order[i] = stage

\* the stages a request has entered follow the order: each is later in it
\* than the one entered before
Follows(stages, order) ==
    \A i, j \in 1..Len(stages) :
        i < j => Place(order, stages[i]) < Place(order, stages[j])

ClaimedOrder ==
    <<"Validate", "Acquire Page", "Navigate", "Settle",
      "Extract", "Capture", "Assemble", "Release">>

StageOrder ==
    <<"Validate", "Acquire Page", "Navigate", "Settle",
      "Capture", "Extract", "Assemble", "Release">>

\* the request has entered the Assemble stage
ReachedAssemble(rq) == \E i \in 1..Len(rq.stages) : rq.stages[i] = "Assemble"

\* C20: a request that reaches Assemble has run its stages in the order
\* Validate, Acquire Page, Navigate, Settle, Extract, Capture, Assemble,
\* Release: the DOM extraction is performed before the screenshot capture.
C20_ClaimedStageOrder ==
    \A r \in Reqs :
        ReachedAssemble(req[r]) => Follows(req[r].stages, ClaimedOrder)

\* C20 as amended: a request that reaches Assemble has run its stages in the
\* order Validate, Acquire Page, Navigate, Settle, Capture, Extract, Assemble,
\* Release, the screenshot capture before the DOM extraction: it has entered
\* every stage up to Assemble, and Release as well once it is answered; and
\* no request enters two stages against this order.
C20_StageOrder ==
    \A r \in Reqs :
        /\ Follows(req[r].stages, StageOrder)
        /\ ReachedAssemble(req[r])
              => \A i \in 1..Place(StageOrder, "Assemble") :
                    \E j \in 1..Len(req[r].stages) : req[r].stages[j] = StageOrder[i]
        /\ ReachedAssemble(req[r]) /\ Done(req[r]) => req[r].stages = StageOrder

\* C20 witness: a request has been answered with a result after a screenshot
\* was captured, the content extracted and the result assembled.
C20_Witness ==
    \E r \in Reqs :
        /\ Done(req[r])
        /\ ReachedAssemble(req[r])
        /\ req[r].result.success
        /\ req[r].capture = "ok"
        /\ req[r].extract = "ok"

\* the first white-space-delimited token of a language string, <<>> when it
\* has no token
FirstToken(language) ==
    IF Words(language) = <<>> THEN <<>> ELSE Words(language)[1]

\* the lines of a document that render code, in order
CodeLines(lines) ==
    SelectSeq(lines, LAMBDA l : l.md \in {"fence_open", "code_text", "fence_close",
                                          "inline_code"})

\* the lines the code items of a content list are to be rendered as
RECURSIVE ExpectedCodeLines(_)
ExpectedCodeLines(items) ==
    IF items = <<>> THEN <<>>
    ELSE LET item == Head(items)
         IN  (IF item.multiline
              THEN <<[Line("fence_open") EXCEPT !.target = FirstToken(item.language)],
                     [Line("code_text") EXCEPT !.text = item.text],
                     Line("fence_close")>>
              ELSE <<[Line("inline_code") EXCEPT !.text = item.text]>>)
             \o ExpectedCodeLines(Tail(items))

\* C21: for every code item the extractor can produce, whatever its language
\* string (empty or white space only included), the rendering does not fail:
\* multi-line code is a fenced block tagged with the first token of the
\* language string (no tag without a token), single-line code inline ticks.
C21_CodeRenderingNeverFails ==
    /\ extract_pc /= "raised"
    /\ extract_pc = "assembled"
          => CodeLines(assembled.markdown_content)
                = ExpectedCodeLines(ItemsOf(assembled.visible_content, {"code"}))

\* C22: for every anchor_link item the bare fragment the renderer shows, in
\* the body line and in the entry under "Anchor Links", is the fragment the
\* extractor recorded for the item (anchor_text), whatever the href, one with
\* more than one "#" included.
C22_FragmentIsAnchorText ==
    extract_pc = "assembled"
        => LET anchors == ItemsOf(assembled.visible_content, {"anchor_link"})
               shown == LinesOf(assembled.markdown_content, "anchor_link")
               listed == LinesOf(assembled.markdown_content, "anchor_entry")
           IN  /\ Len(shown) = Len(anchors)
               /\ Len(listed) = Len(anchors)
               /\ \A i \in 1..Len(anchors) :
                     /\ shown[i].target = anchors[i].anchor_text
                     /\ listed[i].target = anchors[i].anchor_text

\* the request is between its arrival and its answer
InFlight(rq) == rq.pc \notin {"idle", "done"}

\* C23: under any interleaving of concurrent requests each request uses only
\* the page it opened itself: no page handle is held by two requests in
\* flight, no request closes a page another request opened, and no request
\* in flight holds a page that has been closed.
C23_PageExclusive ==
    /\ \A r1, r2 \in Reqs :
          r1 /= r2 /\ InFlight(req[r1]) /\ InFlight(req[r2]) /\ req[r1].page /= 0
              => req[r1].page /= req[r2].page
    /\ \A r \in Reqs :
          req[r].page /= 0
              => /\ pages[req[r].page].owner = r
                 /\ InFlight(req[r])
                       => /\ pages[req[r].page].close_calls = 0
                          /\ ~pages[req[r].page].closed
    /\ \A p \in 1..Len(pages) : pages[p].closed_by \in {0, pages[p].owner}

\* C23 witness: one request has closed its page and been answered while
\* another, which opened its own page before that close, is still navigating.
C23_Witness ==
    \E r1, r2 \in Reqs :
        /\ r1 /= r2
        /\ Done(req[r1])
        /\ req[r1].page /= 0
        /\ pages[req[r1].page].closed_by = r1
        /\ req[r2].pc = "goto"
        /\ req[r2].page /= 0
        /\ req[r2].page < req[r1].page

\* the request is inside get_browser, waiting for the driver or the launch
Launching(rq) == rq.pc \in {"playwright_start", "launch"}

\* C24: a failed launch of the browser leaves browser_instance unset, so that
\* /health reports browser_ready false until a launch succeeds and the next
\* get_browser call attempts a launch again; the failure of the warm-up does
\* not leave startup_event; a request whose launch attempt fails ends with
\* status 500 without a page.
C24_LaunchFailure ==
    /\ [](startup /= "raised")
    /\ [](launches = 0 => ~health_check.browser_ready)
    /\ [][/\ startup /= "done" /\ startup' = "done" /\ launches' = launches
                => browser_instance' = browser_instance
          /\ \A r \in Reqs :
               /\ Launching(req[r]) /\ Done(req'[r])
                     => /\ browser_instance' = browser_instance
                        /\ req'[r].error = HTTPException(500)
                        /\ req'[r].status = 500
                        /\ req'[r].page = 0
                        /\ pages' = pages
               /\ req[r].pc = "idle" /\ req'[r].acquired /\ browser_instance = 0
                     => Launching(req'[r])]_vars

\* C24 witness: after a failed warm-up a request whose own launch attempt
\* failed has been answered 500 without a page, and /health reports the
\* browser not ready.
C24_Witness ==
    \E r \in Reqs :
        /\ Done(req[r])
        /\ req[r].acquired
        /\ req[r].browser = 0
        /\ req[r].page = 0
        /\ req[r].status = 500
        /\ launches = 0
        /\ ~health_check.browser_ready

\* C24 witness of the retry: with no browser launched, a second request is
\* inside get_browser attempting the launch.
C24_WitnessRetry ==
    \E r \in Reqs :
        /\ arrivals = MaxRequests
        /\ launches = 0
        /\ req[r].pc = "launch"
        /\ \A r2 \in Reqs : r2 /= r => req[r2].pc = "idle"

=============================================================================
